---- MODULE Spec2Model ----
(***************************************************************************)
(* A model of req.cpp, the C++20 port of the Python requests API:          *)
(* the lazy coroutine task, the session request pipeline                   *)
(* (session::request -> session::send -> base_adapter::send), the          *)
(* http_adapter, and the redirect rebuild operations of the session.       *)
(*                                                                         *)
(* The specifications share the variables:                                 *)
(*   Spec          the session pipeline and session::close                 *)
(*   SpecAdapter   sends issued straight at one http_adapter               *)
(*   SpecRebuild   session::rebuild_method / rebuild_auth on drawn inputs  *)
(*   SpecJar       one cookie_jar and its calls                            *)
(*   SpecShared    the session jar called by callers running in parallel   *)
(*   SpecDict      one case_insensitive_dict and its calls                 *)
(*   SpecDefaults  session defaults and the request prepared for a call    *)
(*   SpecResponse  one response and raise_for_status                       *)
(*   SpecApi       one prepared_request and its prepare calls, and head()  *)
(***************************************************************************)
EXTENDS Integers, Sequences, FiniteSets, TLC

VARIABLES
    max_redirects_,   \* session::max_redirects_
    adapters_,        \* session::adapters_ : prefix -> adapter object
    req_frame,        \* per caller: the coroutine frame of session::request
    snd_frame,        \* per caller: the coroutine frame of session::send
    adp_frame,        \* per caller: the coroutine frame of base_adapter::send
    server,           \* per caller: what the origin server answers, hop by hop
    dispatched,       \* per caller: number of adapter->send(...) calls made
    adapter,          \* SpecAdapter: the http_adapter object under test
    sends,            \* SpecAdapter: the coroutine frames of http_adapter::send
    world,            \* SpecAdapter: per send, what the transport would do
    transport,        \* SpecAdapter: what the transport collaborator has seen
    pr,               \* SpecRebuild: the prepared_request being rebuilt
    resp,             \* SpecRebuild: the redirect response it is rebuilt for
    session_auth,     \* SpecRebuild: session::auth_ (Nil or a strategy)
    rebuilt,          \* SpecRebuild: the call made, with the request before it
    closed,           \* callers whose adapter got close() while their send ran
    cookies_,         \* cookie_jar::cookies_ (the jar of the session)
    jar_read,         \* the last read of the jar and what it returned
    jar_threads,      \* SpecShared: the position of each caller in a jar call
    headers_,         \* a case_insensitive_dict (session::headers_)
    dict_log,         \* SpecDict: the set and erase calls made, in order
    prepared,         \* SpecDefaults: the last call and its prepared_request
    err_resp,         \* SpecResponse: a response object
    raised,           \* SpecResponse: what raise_for_status threw
    hook_log,         \* per caller: the response hooks called, in order
    prep,             \* SpecApi: a prepared_request object
    api_call          \* SpecApi: the last call made, its arguments and outcome

vars == <<max_redirects_, adapters_, req_frame, snd_frame, adp_frame, server,
          dispatched, adapter, sends, world, transport, pr, resp, session_auth,
          rebuilt, closed, cookies_, jar_read, jar_threads, headers_, dict_log,
          prepared, err_resp, raised, hook_log, prep, api_call>>

session_vars == <<max_redirects_, adapters_, req_frame, snd_frame, adp_frame,
                  server, dispatched, closed, hook_log>>

adapter_vars == <<adapter, sends, world, transport>>

rebuild_vars == <<pr, resp, session_auth, rebuilt>>

jar_vars == <<cookies_, jar_read, jar_threads>>

dict_vars == <<headers_, dict_log>>

response_vars == <<err_resp, raised>>

api_vars == <<prep, api_call>>

store_vars == <<jar_vars, dict_vars, prepared, response_vars, api_vars>>

Nil == "nil"

\* std::optional and nullable pointers: the empty set, or the set of the value.
None == {}

Some(x) == {x}

has_value(o) == o # {}

value_of(o) == CHOOSE x \in o : TRUE

(***************************************************************************)
(* Bounds of the model.                                                    *)
(***************************************************************************)
\* longest chain of redirects a server answers with
MaxChain == 2
\* largest value given to session::set_max_redirects
MaxLimit == 1
\* largest pool_maxsize an http_adapter is constructed with
MaxPool == 2
\* largest max_retries an http_adapter is constructed with
MaxRetries == 1
\* largest number of failing attempts the transport answers with
MaxFaults == 1

(***************************************************************************)
(* Program constants.                                                      *)
(***************************************************************************)
default_redirect_limit == 30
default_pool_size == 10
default_retries == 0
default_pool_block == FALSE
redirect_stati == {301, 302, 303, 307, 308}

\* The callers of the session.
Calls == {"c1"}
\* The sends that use one http_adapter concurrently.
Sends == {"s1", "s2"}

(***************************************************************************)
(* Strings.  A URL or a mount prefix is the sequence of its tokens         *)
(* (scheme, host, path, ...), so that "starts with" and the byte order of  *)
(* std::map keys are computed, not assumed.                                *)
(***************************************************************************)
UrlA == <<"https://", "a.example.com", "/">>
UrlS == <<"https://", "special.com", "/">>
UrlB == <<"https://", "b.example.com", "/">>
Urls == {UrlA, UrlS}
\* A URL without a scheme, and one with a scheme no adapter is mounted for
UrlNoScheme == <<"example.com", "/">>
UrlFtp == <<"ftp://", "example.com", "/">>
\* The URLs the callers of the session pass to session::request
RequestUrls == Urls \cup {UrlNoScheme, UrlFtp}

url_host(u) == IF Len(u) >= 2 THEN u[2] ELSE ""

\* url.substr(0, prefix.size()) == prefix
starts_with(u, p) == Len(p) <= Len(u) /\ SubSeq(u, 1, Len(p)) = p

\* Byte order of the tokens that can stand at the same place of two keys.
token_rank(t) ==
    CASE t = "http://" -> 1
      [] t = "https://" -> 2
      [] t = "a.example.com" -> 3
      [] t = "b.example.com" -> 4
      [] t = "special.com" -> 5
      [] OTHER -> 0

RECURSIVE key_less(_, _)
\* std::less<std::string> on two keys of session::adapters_
key_less(p, q) ==
    IF p = <<>> THEN q # <<>>
    ELSE IF q = <<>> THEN FALSE
    ELSE IF Head(p) = Head(q) THEN key_less(Tail(p), Tail(q))
    ELSE token_rank(Head(p)) < token_rank(Head(q))

\* The header names and methods in use, each with the characters it is
\* spelled with.
Spelling ==
    "" :> <<>> @@
    "get" :> <<"g", "e", "t">> @@
    "Get" :> <<"G", "e", "t">> @@
    "GET" :> <<"G", "E", "T">> @@
    "post" :> <<"p", "o", "s", "t">> @@
    "POST" :> <<"P", "O", "S", "T">> @@
    "head" :> <<"h", "e", "a", "d">> @@
    "HEAD" :> <<"H", "E", "A", "D">> @@
    "put" :> <<"p", "u", "t">> @@
    "PUT" :> <<"P", "U", "T">> @@
    "Authorization" :> <<"A", "u", "t", "h", "o", "r", "i", "z", "a", "t", "i", "o", "n">> @@
    "authorization" :> <<"a", "u", "t", "h", "o", "r", "i", "z", "a", "t", "i", "o", "n">> @@
    "AUTHORIZATION" :> <<"A", "U", "T", "H", "O", "R", "I", "Z", "A", "T", "I", "O", "N">> @@
    "Cookie" :> <<"C", "o", "o", "k", "i", "e">> @@
    "cookie" :> <<"c", "o", "o", "k", "i", "e">> @@
    "Location" :> <<"L", "o", "c", "a", "t", "i", "o", "n">> @@
    "location" :> <<"l", "o", "c", "a", "t", "i", "o", "n">> @@
    "Content-Length" :> <<"C", "o", "n", "t", "e", "n", "t", "-", "L", "e", "n", "g", "t", "h">> @@
    "content-length" :> <<"c", "o", "n", "t", "e", "n", "t", "-", "l", "e", "n", "g", "t", "h">> @@
    "Content-Type" :> <<"C", "o", "n", "t", "e", "n", "t", "-", "T", "y", "p", "e">> @@
    "content-type" :> <<"c", "o", "n", "t", "e", "n", "t", "-", "t", "y", "p", "e">> @@
    "CONTENT-TYPE" :> <<"C", "O", "N", "T", "E", "N", "T", "-", "T", "Y", "P", "E">> @@
    "User-Agent" :> <<"U", "s", "e", "r", "-", "A", "g", "e", "n", "t">> @@
    "user-agent" :> <<"u", "s", "e", "r", "-", "a", "g", "e", "n", "t">> @@
    "Accept" :> <<"A", "c", "c", "e", "p", "t">> @@
    "accept" :> <<"a", "c", "c", "e", "p", "t">> @@
    "Accept-Encoding" :> <<"A", "c", "c", "e", "p", "t", "-", "E", "n", "c", "o", "d", "i", "n", "g">> @@
    "accept-encoding" :> <<"a", "c", "c", "e", "p", "t", "-", "e", "n", "c", "o", "d", "i", "n", "g">> @@
    "Connection" :> <<"C", "o", "n", "n", "e", "c", "t", "i", "o", "n">> @@
    "connection" :> <<"c", "o", "n", "n", "e", "c", "t", "i", "o", "n">> @@
    "X-Api-Version" :> <<"X", "-", "A", "p", "i", "-", "V", "e", "r", "s", "i", "o", "n">> @@
    "x-api-version" :> <<"x", "-", "a", "p", "i", "-", "v", "e", "r", "s", "i", "o", "n">> @@
    "X-API-VERSION" :> <<"X", "-", "A", "P", "I", "-", "V", "E", "R", "S", "I", "O", "N">> @@
    "X" :> <<"X">> @@
    "x" :> <<"x">> @@
    "X-" :> <<"X", "-">> @@
    "x-" :> <<"x", "-">>

UpperCase == <<"A", "B", "C", "D", "E", "F", "G", "H", "I", "J", "K", "L", "M",
               "N", "O", "P", "Q", "R", "S", "T", "U", "V", "W", "X", "Y", "Z">>

LowerCase == <<"a", "b", "c", "d", "e", "f", "g", "h", "i", "j", "k", "l", "m",
               "n", "o", "p", "q", "r", "s", "t", "u", "v", "w", "x", "y", "z">>

\* std::tolower, as a table of the letters it changes
Lowered ==
    [c \in {UpperCase[i] : i \in 1..Len(UpperCase)} |->
        LowerCase[CHOOSE i \in 1..Len(UpperCase) : UpperCase[i] = c]]

\* std::tolower on one character
tolower(c) == IF c \in DOMAIN Lowered THEN Lowered[c] ELSE c

\* case_insensitive_dict::to_lower: std::tolower over every character
to_lower(k) ==
    IF k \in DOMAIN Spelling
    THEN LET folded == [i \in 1..Len(Spelling[k]) |-> tolower(Spelling[k][i])]
         IN  CHOOSE l \in DOMAIN Spelling : Spelling[l] = folded
    ELSE k

\* std::toupper, as a table of the letters it changes
Uppered ==
    [c \in {LowerCase[i] : i \in 1..Len(LowerCase)} |->
        UpperCase[CHOOSE i \in 1..Len(LowerCase) : LowerCase[i] = c]]

\* std::toupper on one character
toupper(c) == IF c \in DOMAIN Uppered THEN Uppered[c] ELSE c

\* prepare_method: std::toupper over every character of the method
to_upper(m) ==
    IF m \in DOMAIN Spelling
    THEN LET raised_case == [i \in 1..Len(Spelling[m]) |-> toupper(Spelling[m][i])]
         IN  CHOOSE u \in DOMAIN Spelling : Spelling[u] = raised_case
    ELSE m

(***************************************************************************)
(* case_insensitive_dict: lower-cased key -> (key as given, value).        *)
(***************************************************************************)
dict_empty == [k \in {} |-> Nil]

\* A faulty set: the entry is stored under the key as it was given.
dict_set_as_given(d, key, value) ==
    [k \in DOMAIN d \cup {key} |->
        IF k = key THEN [key |-> key, value |-> value] ELSE d[k]]

dict_set(d, key, value) ==
    [k \in DOMAIN d \cup {to_lower(key)} |->
        IF k = to_lower(key) THEN [key |-> key, value |-> value] ELSE d[k]]

dict_get(d, key) ==
    IF to_lower(key) \in DOMAIN d THEN d[to_lower(key)].value ELSE Nil

dict_contains(d, key) == to_lower(key) \in DOMAIN d

dict_erase(d, key) == [k \in DOMAIN d \ {to_lower(key)} |-> d[k]]

dict_size(d) == Cardinality(DOMAIN d)

dict_clear(d) == dict_empty

(***************************************************************************)
(* request_options, request, prepared_request, response                    *)
(***************************************************************************)
Digits == <<"0", "1", "2", "3", "4", "5", "6", "7", "8", "9">>

RECURSIVE to_string(_)
\* std::to_string of an int: the sequence of its decimal digits
to_string(n) ==
    IF n < 0 THEN <<"-">> \o to_string(0 - n)
    ELSE IF n < 10 THEN <<Digits[n + 1]>>
    ELSE to_string(n \div 10) \o <<Digits[(n % 10) + 1]>>

\* request_options{}: every member std::nullopt
default_options ==
    [headers |-> None, data |-> None, json |-> None, params |-> None,
     allow_redirects |-> None, timeout_cfg |-> None, hooks_cfg |-> None]

\* prepared_request{}: default-constructed members
empty_prepared ==
    [method |-> "", url |-> <<>>, headers |-> dict_empty, body |-> <<>>,
     hooks |-> <<>>]

\* prepared_request::prepare_method
prepare_method(p, method) == [p EXCEPT !.method = to_upper(method)]

\* prepared_request::prepare_url: params holds the "k=v" tokens in key order
prepare_url(p, url, params) ==
    IF has_value(params) /\ value_of(params) # <<>>
    THEN [p EXCEPT !.url = url \o <<IF \E i \in 1..Len(url) : url[i] = "?"
                                    THEN "&" ELSE "?">> \o value_of(params)]
    ELSE [p EXCEPT !.url = url]

\* prepared_request::prepare_headers
prepare_headers(p, headers) == [p EXCEPT !.headers = headers]

\* prepared_request::prepare_content_length
prepare_content_length(p) ==
    IF p.body # <<>>
    THEN [p EXCEPT !.headers = dict_set(@, "Content-Length", to_string(Len(p.body)))]
    ELSE p

\* prepared_request::prepare_body (files are read by no branch)
prepare_body(p, data, files, json) ==
    prepare_content_length(
        IF has_value(json)
        THEN [p EXCEPT !.body = value_of(json),
                       !.headers = dict_set(@, "Content-Type", "application/json")]
        ELSE IF has_value(data) THEN [p EXCEPT !.body = value_of(data)]
        ELSE p)

\* prepared_request::prepare_hooks: the hooks in registration order
prepare_hooks(p, h) == [p EXCEPT !.hooks = h]

\* request::request followed by request::prepare and prepared_request::prepare:
\* an absent data option becomes the empty string, absent or empty headers
\* are not passed on, the hooks of the request (none when hooks_cfg is absent)
\* always are.
request_prepare(method, url, opts) ==
    LET p1 == prepare_url(prepare_method(empty_prepared, method), url, opts.params)
        p2 == IF has_value(opts.headers) /\ value_of(opts.headers) # dict_empty
              THEN prepare_headers(p1, value_of(opts.headers)) ELSE p1
        p3 == prepare_body(p2, Some(IF has_value(opts.data) THEN value_of(opts.data)
                                    ELSE <<>>),
                           None, opts.json)
    IN  prepare_hooks(p3, IF has_value(opts.hooks_cfg) THEN value_of(opts.hooks_cfg)
                          ELSE <<>>)

\* session::prepare_request
prepare_request(method, url, opts) == request_prepare(method, url, opts)

\* response{}: default-constructed members
empty_response ==
    [status_code |-> 0, reason |-> "", url |-> <<>>, headers |-> dict_empty,
     history |-> <<>>, request |-> None]

\* response::is_redirect
is_redirect(r) ==
    r.status_code \in {301, 302, 303, 307, 308} /\ dict_contains(r.headers, "Location")

(***************************************************************************)
(* Adapters.                                                               *)
(***************************************************************************)
\* http_adapter::http_adapter
http_adapter(pool_connections, pool_maxsize, max_retries, pool_block) ==
    [kind |-> "http_adapter", pool_connections |-> pool_connections,
     pool_maxsize |-> pool_maxsize, max_retries |-> max_retries,
     pool_block |-> pool_block]

\* An adapter the application derives from base_adapter: its send relays
\* what the origin server answers.
user_adapter ==
    [kind |-> "user", pool_connections |-> 0, pool_maxsize |-> 0,
     max_retries |-> 0, pool_block |-> FALSE]

\* The response http_adapter::send co_returns.
http_adapter_response(request) ==
    [empty_response EXCEPT !.status_code = 200, !.reason = "OK", !.url = request.url]

\* The answer of the origin server on hop number hop of a request: the first
\* chain hops are 302 with a Location, the next one has the final status.  The
\* adapter that relays it records the request it sent (set_request).
server_answer(srv, request, hop) ==
    IF hop <= srv.chain
    THEN [empty_response EXCEPT !.status_code = 302, !.reason = "Found",
                                !.url = request.url, !.request = Some(request),
                                !.headers = dict_set(dict_empty, "Location", UrlB)]
    ELSE [empty_response EXCEPT !.status_code = srv.final,
                                !.reason = IF srv.final = 200 THEN "OK" ELSE "Not Found",
                                !.url = request.url, !.request = Some(request)]

\* base_adapter::send of the adapter object a, for hop number hop
base_adapter_send(a, request, srv, hop) ==
    IF a.kind = "http_adapter" THEN http_adapter_response(request)
    ELSE server_answer(srv, request, hop)

\* session::get_adapter: the first key, in key order, the URL starts with
get_adapter(adapters, url) ==
    LET M == {p \in DOMAIN adapters : starts_with(url, p)}
    IN  IF M # {}
        THEN adapters[CHOOSE p \in M : \A q \in M : q = p \/ key_less(p, q)]
        ELSE adapters[<<"http://">>]

\* session::mount
mount(adapters, prefix, a) ==
    [p \in DOMAIN adapters \cup {prefix} |-> IF p = prefix THEN a ELSE adapters[p]]

(***************************************************************************)
(* Coroutine frames.  pc is "none" (no task object), "initial" (suspended  *)
(* at initial_suspend), "resumed" (handle_.resume() called, body not yet   *)
(* run), "await" (suspended at a co_await) or "final" (suspended at        *)
(* final_suspend, promise.value_ set).                                     *)
(***************************************************************************)
no_frame == [pc |-> "none", value |-> None, exception |-> Nil]

no_request ==
    [pc |-> "none", method |-> "", url |-> <<>>, opts |-> default_options,
     prepped |-> None, value |-> None, exception |-> Nil]

no_send == [pc |-> "none", adapter |-> None, value |-> None, exception |-> Nil]

Methods == {"GET", "POST"}

\* std::optional<bool> allow_redirects
AllowRedirects == {None, Some(TRUE), Some(FALSE)}

MountPrefixes == {<<"https://">>, UrlS}

\* std::optional<hooks> hooks_cfg: absent, or two hooks in registration order
HookLists == {None, Some(<<"h1", "h2">>)}

Servers == [chain : 0..MaxChain, final : {200, 404}]

\* session::session
SessionInit ==
    /\ max_redirects_ = default_redirect_limit
    /\ adapters_ = [p \in {<<"https://">>, <<"http://">>} |->
                      http_adapter(default_pool_size, default_pool_size,
                                   default_retries, default_pool_block)]
    /\ req_frame = [c \in Calls |-> no_request]
    /\ snd_frame = [c \in Calls |-> no_send]
    /\ adp_frame = [c \in Calls |-> no_frame]
    /\ server = [c \in Calls |-> None]
    /\ dispatched = [c \in Calls |-> 0]
    /\ closed = {}
    /\ hook_log = [c \in Calls |-> <<>>]

\* session::set_max_redirects
set_max_redirects(m) ==
    /\ max_redirects_' = m
    /\ UNCHANGED <<adapters_, req_frame, snd_frame, adp_frame, server, dispatched, closed, hook_log>>

\* session::mount, called by the application
session_mount(prefix, a) ==
    /\ adapters_' = mount(adapters_, prefix, a)
    /\ UNCHANGED <<max_redirects_, req_frame, snd_frame, adp_frame, server, dispatched, closed, hook_log>>

\* A caller calls session::request (or get/post): the task is created and is
\* suspended at initial_suspend.  The server the URL names is drawn here.
session_request(c, method, url, allow, hk, srv) ==
    /\ req_frame[c].pc = "none"
    /\ req_frame' = [req_frame EXCEPT ![c] =
            [no_request EXCEPT !.pc = "initial", !.method = method, !.url = url,
                               !.opts = [default_options EXCEPT !.allow_redirects = allow,
                                                                !.hooks_cfg = hk]]]
    /\ server' = [server EXCEPT ![c] = Some(srv)]
    /\ dispatched' = [dispatched EXCEPT ![c] = 0]
    /\ UNCHANGED <<max_redirects_, adapters_, snd_frame, adp_frame, closed, hook_log>>

\* The caller co_awaits the task: task::await_suspend resumes the frame, and
\* the body of session::request runs to its co_await of session::send, whose
\* frame is created and resumed in turn.
request_body(c) ==
    /\ req_frame[c].pc = "initial"
    /\ req_frame' = [req_frame EXCEPT ![c].pc = "await",
            ![c].prepped = Some(prepare_request(req_frame[c].method, req_frame[c].url,
                                                req_frame[c].opts))]
    /\ snd_frame' = [snd_frame EXCEPT ![c] = [no_send EXCEPT !.pc = "resumed"]]
    /\ UNCHANGED <<max_redirects_, adapters_, adp_frame, server, dispatched, closed, hook_log>>

\* The body of session::send: get_adapter, then co_await adapter->send(...),
\* whose frame is created and resumed.
send_body(c) ==
    /\ snd_frame[c].pc = "resumed"
    /\ snd_frame' = [snd_frame EXCEPT ![c].pc = "await",
            ![c].adapter = Some(get_adapter(adapters_, value_of(req_frame[c].prepped).url))]
    /\ dispatched' = [dispatched EXCEPT ![c] = @ + 1]
    /\ adp_frame' = [adp_frame EXCEPT ![c] = [no_frame EXCEPT !.pc = "resumed"]]
    /\ UNCHANGED <<max_redirects_, adapters_, req_frame, server, closed, hook_log>>

\* The body of the adapter's send runs to its co_return: return_value stores
\* the response in the promise and the frame stops at final_suspend.  resume()
\* then returns into task::await_suspend of session::send, which returns: the
\* awaiter's handle was not kept, so no frame of the chain is resumed again.
adapter_body(c) ==
    /\ adp_frame[c].pc = "resumed"
    /\ adp_frame' = [adp_frame EXCEPT ![c].pc = "final",
            ![c].value = Some(base_adapter_send(value_of(snd_frame[c].adapter),
                                                value_of(req_frame[c].prepped),
                                                value_of(server[c]), dispatched[c]))]
    /\ UNCHANGED <<max_redirects_, adapters_, req_frame, snd_frame, server, dispatched, closed, hook_log>>

\* task::~task: the caller drops the task; the frames of the chain go with it.
task_destroy(c) ==
    /\ \/ req_frame[c].pc = "initial"
       \/ adp_frame[c].pc = "final"
    /\ req_frame' = [req_frame EXCEPT ![c] = no_request]
    /\ snd_frame' = [snd_frame EXCEPT ![c] = no_send]
    /\ adp_frame' = [adp_frame EXCEPT ![c] = no_frame]
    /\ server' = [server EXCEPT ![c] = None]
    /\ dispatched' = [dispatched EXCEPT ![c] = 0]
    /\ closed' = closed \ {c}
    /\ hook_log' = [hook_log EXCEPT ![c] = <<>>]
    /\ UNCHANGED <<max_redirects_, adapters_>>

\* The send of caller c is running inside an adapter of the application that
\* is still mounted: the adapter keeps a connection for it until it answers.
\* (http_adapter::send keeps none and has no suspension point.)
holds_connection(c) ==
    /\ adp_frame[c].pc = "resumed"
    /\ snd_frame[c].adapter = Some(user_adapter)
    /\ \E p \in DOMAIN adapters_ : adapters_[p] = user_adapter

\* session::close: adapter->close() on every mounted adapter, in key order and
\* at once; nothing is waited for.  http_adapter::close has an empty body; an
\* adapter of the application releases the connections it holds.
session_close ==
    /\ closed' = closed \cup {c \in Calls : holds_connection(c)}
    /\ UNCHANGED <<max_redirects_, adapters_, req_frame, snd_frame, adp_frame,
                   server, dispatched, hook_log>>

(***************************************************************************)
(* The transport collaborator, as one http_adapter has used it: per origin *)
(* (host) the connections it holds open and how many of them are idle, the *)
(* number it has opened so far, and per send how many times the bytes of   *)
(* the request were written to a connection.                               *)
(***************************************************************************)
Origins == {"a.example.com", "special.com"}

no_transport ==
    [live |-> [o \in Origins |-> 0], idle |-> [o \in Origins |-> 0],
     opened |-> [o \in Origins |-> 0], written |-> [s \in Sends |-> 0]]

no_adapter_send ==
    [pc |-> "none", request |-> None, timeout_cfg |-> None, value |-> None,
     exception |-> Nil]

\* One step of the call chain of caller c.
CallStep(c) == request_body(c) \/ send_body(c) \/ adapter_body(c)

AdapterIdle ==
    /\ adapter = None
    /\ sends = [s \in Sends |-> no_adapter_send]
    /\ world = [s \in Sends |-> None]
    /\ transport = no_transport

RebuildIdle ==
    /\ pr = None
    /\ resp = None
    /\ session_auth = None
    /\ rebuilt = None

JarIdle ==
    /\ cookies_ = <<>>
    /\ jar_read = None
    /\ jar_threads = None

DictIdle ==
    /\ headers_ = dict_empty
    /\ dict_log = <<>>

ResponseIdle ==
    /\ err_resp = None
    /\ raised = None

ApiIdle ==
    /\ prep = empty_prepared
    /\ api_call = None

StoreIdle == JarIdle /\ DictIdle /\ ResponseIdle /\ ApiIdle /\ prepared = None

Init == SessionInit /\ AdapterIdle /\ RebuildIdle /\ StoreIdle

Next ==
    \/ \E m \in 0..MaxLimit : set_max_redirects(m) /\ UNCHANGED <<adapter_vars, rebuild_vars, store_vars>>
    \/ \E p \in MountPrefixes, a \in {user_adapter, http_adapter(1, 1, 0, FALSE)} :
          session_mount(p, a) /\ UNCHANGED <<adapter_vars, rebuild_vars, store_vars>>
    \/ \E c \in Calls, m \in Methods, u \in RequestUrls, al \in AllowRedirects,
          hk \in HookLists, srv \in Servers :
          session_request(c, m, u, al, hk, srv) /\ UNCHANGED <<adapter_vars, rebuild_vars, store_vars>>
    \/ \E c \in Calls : request_body(c) /\ UNCHANGED <<adapter_vars, rebuild_vars, store_vars>>
    \/ \E c \in Calls : send_body(c) /\ UNCHANGED <<adapter_vars, rebuild_vars, store_vars>>
    \/ \E c \in Calls : adapter_body(c) /\ UNCHANGED <<adapter_vars, rebuild_vars, store_vars>>
    \/ \E c \in Calls : task_destroy(c) /\ UNCHANGED <<adapter_vars, rebuild_vars, store_vars>>
    \/ session_close /\ UNCHANGED <<adapter_vars, rebuild_vars, store_vars>>

Spec == Init /\ [][Next]_vars

(***************************************************************************)
(* What a call has produced.  The response of a call is looked for in the  *)
(* promise of the outermost frame that holds one.                          *)
(***************************************************************************)
call_result(c) ==
    IF has_value(req_frame[c].value) THEN req_frame[c].value
    ELSE IF has_value(snd_frame[c].value) THEN snd_frame[c].value
    ELSE adp_frame[c].value

call_exception(c) ==
    IF req_frame[c].exception # Nil THEN req_frame[c].exception
    ELSE IF snd_frame[c].exception # Nil THEN snd_frame[c].exception
    ELSE adp_frame[c].exception

\* The call of caller c was started and no step of it is left to take.
Quiescent(c) == req_frame[c].pc \notin {"none", "initial"} /\ ~ENABLED CallStep(c)

\* The call of caller c went to an adapter that relays the server's answers.
Relayed(c) == snd_frame[c].adapter = Some(user_adapter)

\* C1: with allow_redirects on, a request whose server answers N < max_redirects
\* 302-with-Location responses and then a non-redirect response ends with that
\* last response: its status is the last hop's and its history holds the N
\* redirect responses, oldest first.
C1_RedirectChainFollowed ==
    \A c \in Calls :
        (/\ Quiescent(c)
         /\ Relayed(c)
         /\ req_frame[c].opts.allow_redirects = Some(TRUE)
         /\ value_of(server[c]).chain < max_redirects_)
        => /\ has_value(call_result(c))
           /\ value_of(call_result(c)).status_code = value_of(server[c]).final
           /\ Len(value_of(call_result(c)).history) = value_of(server[c]).chain
           /\ \A i \in 1..Len(value_of(call_result(c)).history) :
                 value_of(call_result(c)).history[i].status_code = 302

\* C2: a request whose server answers N >= max_redirects consecutive 302
\* redirects (N >= 1) returns no response: it fails with too_many_redirects,
\* and no more than max_redirects redirects are followed.
C2_TooManyRedirectsRaised ==
    \A c \in Calls :
        (/\ Quiescent(c)
         /\ Relayed(c)
         /\ req_frame[c].opts.allow_redirects = Some(TRUE)
         /\ value_of(server[c]).chain >= 1
         /\ value_of(server[c]).chain >= max_redirects_)
        => /\ call_exception(c) = "too_many_redirects"
           /\ ~has_value(call_result(c))
           /\ dispatched[c] <= max_redirects_ + 1

\* The scheme a URL starts with, if it starts with one
Schemes == {"http://", "https://", "ftp://"}

has_scheme(u) == u # <<>> /\ u[1] \in Schemes

supported_scheme(u) == u # <<>> /\ u[1] \in {"http://", "https://"}

\* The call of caller c was started and its body has run
Started(c) == req_frame[c].pc \notin {"none", "initial"}

\* C22: a request whose URL has no scheme fails with missing_schema, one
\* whose scheme is neither http nor https fails with invalid_schema, and in
\* neither case is the request dispatched to an adapter.
C22_SchemeChecked ==
    \A c \in Calls :
        Started(c) /\ ~supported_scheme(req_frame[c].url)
        => /\ dispatched[c] = 0
           /\ ~has_value(snd_frame[c].adapter)
           /\ Quiescent(c)
              => call_exception(c) = IF has_scheme(req_frame[c].url)
                                     THEN "invalid_schema" ELSE "missing_schema"

\* The mounted prefixes a URL starts with
matching_prefixes(adapters, url) == {p \in DOMAIN adapters : starts_with(url, p)}

\* The longest of them
most_specific_prefix(adapters, url) ==
    CHOOSE p \in matching_prefixes(adapters, url) :
        \A q \in matching_prefixes(adapters, url) : Len(q) <= Len(p)

\* C24: after mount(prefix, adapter), a request whose URL starts with prefix
\* is sent through that adapter, also when a shorter mounted prefix matches
\* the same URL: get_adapter returns the adapter of the most specific
\* matching prefix, and session::send dispatches to it.
C24_MostSpecificPrefix ==
    /\ \A u \in RequestUrls :
          matching_prefixes(adapters_, u) # {}
          => get_adapter(adapters_, u) = adapters_[most_specific_prefix(adapters_, u)]
    /\ \A c \in Calls :
          (/\ snd_frame[c].pc = "resumed"
           /\ matching_prefixes(adapters_, req_frame[c].url) # {}
           /\ ENABLED send_body(c))
          => get_adapter(adapters_, value_of(req_frame[c].prepped).url)
                = adapters_[most_specific_prefix(adapters_, req_frame[c].url)]

RECURSIVE repeated(_, _)
\* The sequence h, n times over
repeated(h, n) == IF n = 0 THEN <<>> ELSE h \o repeated(h, n - 1)

\* The hooks registered for the request of caller c, in registration order
\* (the session's own registry stays empty here)
registered_hooks(c) == value_of(req_frame[c].prepped).hooks

\* The adapter's send of caller c has returned its response
Answered(c) == Quiescent(c) /\ adp_frame[c].pc = "final"

\* C27: on every hop of session::send, once the adapter has returned a
\* response, every registered response hook has been run on it exactly once,
\* in registration order: the hooks run for a call are the registered hooks,
\* once per hop.
C27_HooksRunOnEveryHop ==
    \A c \in Calls :
        Answered(c) => hook_log[c] = repeated(registered_hooks(c), dispatched[c])

\* C28: the response of a hop, and every entry of its history, refers to the
\* prepared request that was sent on that hop, with the method, URL, headers
\* and body it was sent with.
C28_ResponseKeepsItsRequest ==
    \A c \in Calls :
        Answered(c) /\ has_value(call_result(c))
        => /\ value_of(call_result(c)).request = req_frame[c].prepped
           /\ \A i \in 1..Len(value_of(call_result(c)).history) :
                 has_value(value_of(call_result(c)).history[i].request)

\* C29: a coroutine that co_awaits a task is resumed once the awaited task
\* has run to completion and receives its value or exception: when the
\* adapter's send has completed and no step of the call is left, session::send
\* and session::request have completed with that value.
C29_AwaiterResumed ==
    \A c \in Calls :
        Answered(c)
        => /\ snd_frame[c].pc = "final"
           /\ snd_frame[c].value = adp_frame[c].value
           /\ snd_frame[c].exception = adp_frame[c].exception
           /\ req_frame[c].pc = "final"
           /\ req_frame[c].value = adp_frame[c].value
           /\ req_frame[c].exception = adp_frame[c].exception

(***************************************************************************)
(* SpecRebuild: the redirect rebuild operations of the session, applied to *)
(* a prepared request and the redirect response received for it.           *)
(***************************************************************************)
\* session::rebuild_method: the body is empty
rebuild_method(p, r) == p

\* session::rebuild_auth: the body is empty
rebuild_auth(p, r) == p

\* session::rebuild_proxies: the body is empty
rebuild_proxies(p, proxies) == p

RebuildMethods == {"GET", "HEAD", "POST", "PUT"}

\* The per-call headers an application gives: none, credentials, a cookie, both.
RebuildHeaders ==
    {None,
     Some(dict_set(dict_empty, "Authorization", "Basic dXNlcjpwYXNz")),
     Some(dict_set(dict_empty, "Cookie", "sid=1")),
     Some(dict_set(dict_set(dict_empty, "Authorization", "Basic dXNlcjpwYXNz"),
                   "Cookie", "sid=1"))}

RebuildBodies == {None, Some(<<1, 2>>)}

\* A redirect response with a Location header, as an adapter hands it over.
redirect_response(status, from, location) ==
    [empty_response EXCEPT !.status_code = status, !.reason = "Redirect",
                           !.url = from,
                           !.headers = dict_set(dict_empty, "Location", location)]

InitRebuild ==
    /\ SessionInit
    /\ AdapterIdle
    /\ StoreIdle
    /\ \E m \in RebuildMethods, h \in RebuildHeaders, d \in RebuildBodies :
          pr = Some(prepare_request(m, UrlA,
                       [default_options EXCEPT !.headers = h, !.data = d]))
    /\ \E st \in redirect_stati, loc \in {UrlA, UrlB} :
          resp = Some(redirect_response(st, UrlA, loc))
    /\ session_auth \in {None, Some("http_basic_auth")}
    /\ rebuilt = None

\* The rebuild operations applied so far, and the request before the first.
rebuilt_ops == IF has_value(rebuilt) THEN value_of(rebuilt).ops ELSE {}

note_rebuild(op) ==
    rebuilt' = Some([before |-> IF has_value(rebuilt) THEN value_of(rebuilt).before
                                ELSE value_of(pr),
                     ops |-> rebuilt_ops \cup {op}])

\* The application (or a redirect loop) calls session::rebuild_method(pr, resp).
call_rebuild_method ==
    /\ "rebuild_method" \notin rebuilt_ops
    /\ pr' = Some(rebuild_method(value_of(pr), value_of(resp)))
    /\ note_rebuild("rebuild_method")
    /\ UNCHANGED <<resp, session_auth>>

\* session::rebuild_auth(pr, resp)
call_rebuild_auth ==
    /\ "rebuild_auth" \notin rebuilt_ops
    /\ pr' = Some(rebuild_auth(value_of(pr), value_of(resp)))
    /\ note_rebuild("rebuild_auth")
    /\ UNCHANGED <<resp, session_auth>>

\* session::rebuild_proxies(pr, proxies)
call_rebuild_proxies ==
    /\ "rebuild_proxies" \notin rebuilt_ops
    /\ pr' = Some(rebuild_proxies(value_of(pr), None))
    /\ note_rebuild("rebuild_proxies")
    /\ UNCHANGED <<resp, session_auth>>

NextRebuild ==
    \/ call_rebuild_method /\ UNCHANGED <<session_vars, adapter_vars, store_vars>>
    \/ call_rebuild_auth /\ UNCHANGED <<session_vars, adapter_vars, store_vars>>
    \/ call_rebuild_proxies /\ UNCHANGED <<session_vars, adapter_vars, store_vars>>

SpecRebuild == InitRebuild /\ [][NextRebuild]_vars

\* The host the redirect response sends the request to.
redirect_host(r) == url_host(dict_get(r.headers, "Location"))

\* C3: when the redirect's target host differs from the host of the request
\* that was redirected, the rebuilt request carries no Cookie header of the
\* previous request, and an Authorization header only if the session has an
\* auth strategy to re-apply.
C3_CrossHostStripsCredentials ==
    (/\ "rebuild_auth" \in rebuilt_ops
     /\ redirect_host(value_of(resp)) # url_host(value_of(rebuilt).before.url))
    => /\ ~dict_contains(value_of(pr).headers, "Cookie")
       /\ dict_contains(value_of(pr).headers, "Authorization") => has_value(session_auth)

\* The method the rewrite policy gives for a redirect status and a method.
policy_method(status, method) ==
    IF status = 303 THEN "GET"
    ELSE IF status \in {301, 302} /\ method \notin {"GET", "HEAD"} THEN "GET"
    ELSE method

\* The body the rewrite policy gives.
policy_body(status, method, body) ==
    IF status = 303 THEN <<>>
    ELSE IF status \in {301, 302} /\ method \notin {"GET", "HEAD"} THEN <<>>
    ELSE body

\* C4: after rebuild_method the request's method and body are those of the
\* rewrite policy: 303 gives GET with an empty body, 301/302 give GET with an
\* empty body unless the method was GET or HEAD, 307/308 keep method and body.
C4_MethodRewritePolicy ==
    "rebuild_method" \in rebuilt_ops
    => /\ value_of(pr).method =
             policy_method(value_of(resp).status_code, value_of(rebuilt).before.method)
       /\ value_of(pr).body =
             policy_body(value_of(resp).status_code, value_of(rebuilt).before.method,
                         value_of(rebuilt).before.body)

(***************************************************************************)
(* SpecAdapter: sends issued at one http_adapter, two at a time.           *)
(*                                                                         *)
(* The world of a send says what the transport would do on the successive  *)
(* attempts of that send: the attempts listed in faults fail as named, the *)
(* attempt after them is answered with the status final.                   *)
(*   connect_error    connection_error while the connection is set up      *)
(*   write_error      connection_error after part of the request was sent  *)
(*   connect_timeout  the connect timeout ran out during set-up            *)
(*   read_timeout     the read timeout ran out after the request was sent  *)
(***************************************************************************)
ConnectionFaults == {"connect_error", "write_error"}

TimeoutFaults == {"connect_timeout", "read_timeout"}

\* The exception class a failing attempt raises.
fault_error(f) == IF f \in ConnectionFaults THEN "connection_error" ELSE f

\* Whether bytes of the request were written before the attempt failed.
fault_wrote(f) == f \in {"write_error", "read_timeout"}

RECURSIVE fault_seqs(_, _)
\* The sequences of at most n faults drawn from F.
fault_seqs(F, n) ==
    IF n = 0 THEN {<<>>}
    ELSE LET shorter == fault_seqs(F, n - 1)
         IN  shorter \cup {Append(q, f) : q \in shorter, f \in F}

\* Timeouts run out only when a timeout is configured.
Worlds(timeout_cfg) ==
    [faults : fault_seqs(IF has_value(timeout_cfg)
                         THEN ConnectionFaults \cup TimeoutFaults
                         ELSE ConnectionFaults, MaxFaults),
     final : {200, 404}]

\* timeout::from_pair(3.05, 27.0), in milliseconds
Timeouts == {None, Some([connect |-> 3050, read |-> 27000])}

\* A faulty send: every attempt opens a connection of its own and keeps it.
http_adapter_send_opening(self, s, request, timeout_cfg, w, t) ==
    [value |-> Some(http_adapter_response(request)), exception |-> Nil,
     transport |-> [t EXCEPT !.live[url_host(request.url)] = @ + 1,
                             !.opened[url_host(request.url)] = @ + 1]]

\* A faulty send: the request is written on every attempt and any failing
\* attempt is followed by another one while retries are left.
http_adapter_send_retrying(self, s, request, timeout_cfg, w, t) ==
    LET attempts == IF Len(w.faults) < 1 + self.max_retries
                    THEN Len(w.faults) + 1 ELSE 1 + self.max_retries
        writes == Cardinality({i \in 1..attempts :
                                  i > Len(w.faults) \/ fault_wrote(w.faults[i])})
    IN  [value |-> Some(http_adapter_response(request)), exception |-> Nil,
         transport |-> [t EXCEPT !.written[s] = @ + writes]]

\* http_adapter::send: the response co_returned, the exception thrown and
\* what the call does to the transport.  The body builds a 200 response; it
\* reads none of max_retries_, pool_maxsize_, pool_block_, timeout_cfg, and
\* calls nothing of the transport.
http_adapter_send(self, s, request, timeout_cfg, w, t) ==
    [value |-> Some(http_adapter_response(request)), exception |-> Nil,
     transport |-> t]

\* http_adapter::init_poolmanager: the body is empty
init_poolmanager(self, connections, maxsize, block, t) == t

\* http_adapter::get_connection: the body is empty
get_connection(self, url, t) == t

\* http_adapter::close: the body is empty
http_adapter_close(self, t) == t

InitAdapter ==
    /\ SessionInit
    /\ RebuildIdle
    /\ StoreIdle
    /\ \E size \in 1..MaxPool, retries \in 0..MaxRetries, block \in BOOLEAN :
          adapter = Some(http_adapter(default_pool_size, size, retries, block))
    /\ sends = [s \in Sends |-> no_adapter_send]
    /\ world = [s \in Sends |-> None]
    /\ transport = no_transport

\* A caller calls adapter.send(request, stream, timeout_cfg, ...): the task is
\* created and is suspended at initial_suspend.
adapter_send(s, method, url, timeout_cfg) ==
    /\ sends[s].pc = "none"
    /\ sends' = [sends EXCEPT ![s] =
            [no_adapter_send EXCEPT !.pc = "initial",
                                    !.request = Some(prepare_request(method, url, default_options)),
                                    !.timeout_cfg = timeout_cfg]]
    /\ UNCHANGED <<adapter, world, transport>>

\* The caller co_awaits the task: the body of http_adapter::send runs to its
\* co_return, in the world w.
adapter_send_body(s, w) ==
    /\ sends[s].pc = "initial"
    /\ LET out == http_adapter_send(value_of(adapter), s, value_of(sends[s].request),
                                    sends[s].timeout_cfg, w, transport)
       IN  /\ sends' = [sends EXCEPT ![s].pc = "final", ![s].value = out.value,
                                     ![s].exception = out.exception]
           /\ transport' = out.transport
    /\ world' = [world EXCEPT ![s] = Some(w)]
    /\ UNCHANGED adapter

\* task::~task: the caller drops the task of a send.
adapter_task_destroy(s) ==
    /\ sends[s].pc \in {"initial", "final"}
    /\ sends' = [sends EXCEPT ![s] = no_adapter_send]
    /\ world' = [world EXCEPT ![s] = None]
    /\ transport' = [transport EXCEPT !.written[s] = 0]
    /\ UNCHANGED adapter

\* adapter.init_poolmanager(connections, maxsize, block)
adapter_init_poolmanager ==
    /\ transport' = init_poolmanager(value_of(adapter), default_pool_size,
                                     value_of(adapter).pool_maxsize,
                                     value_of(adapter).pool_block, transport)
    /\ UNCHANGED <<adapter, sends, world>>

\* adapter.get_connection(url)
adapter_get_connection(url) ==
    /\ transport' = get_connection(value_of(adapter), url, transport)
    /\ UNCHANGED <<adapter, sends, world>>

\* adapter.close()
adapter_close ==
    /\ transport' = http_adapter_close(value_of(adapter), transport)
    /\ UNCHANGED <<adapter, sends, world>>

NextAdapter ==
    \/ \E s \in Sends, m \in Methods, u \in Urls, t \in Timeouts :
          adapter_send(s, m, u, t) /\ UNCHANGED <<session_vars, rebuild_vars, store_vars>>
    \/ \E s \in Sends : \E w \in Worlds(sends[s].timeout_cfg) :
          adapter_send_body(s, w) /\ UNCHANGED <<session_vars, rebuild_vars, store_vars>>
    \/ \E s \in Sends : adapter_task_destroy(s) /\ UNCHANGED <<session_vars, rebuild_vars, store_vars>>
    \/ adapter_init_poolmanager /\ UNCHANGED <<session_vars, rebuild_vars, store_vars>>
    \/ \E u \in Urls : adapter_get_connection(u) /\ UNCHANGED <<session_vars, rebuild_vars, store_vars>>
    \/ adapter_close /\ UNCHANGED <<session_vars, rebuild_vars, store_vars>>

SpecAdapter == InitAdapter /\ [][NextAdapter]_vars

send_method(s) == value_of(sends[s].request).method

send_origin(s) == url_host(value_of(sends[s].request).url)

\* The task of send s has run to its co_return.
Completed(s) == sends[s].pc = "final"

\* GLOSSARY: the methods safe to retry
IdempotentMethods == {"GET", "HEAD", "OPTIONS", "PUT", "DELETE"}

\* C5: a GET through an adapter with max_retries >= 1 whose first connection
\* attempt fails with a connection error and whose second attempt succeeds
\* ends with the response of that second attempt and no error.
C5_RetryReturnsResponse ==
    \A s \in Sends :
        (/\ Completed(s)
         /\ send_method(s) = "GET"
         /\ value_of(adapter).max_retries >= 1
         /\ value_of(world[s]).faults = <<"connect_error">>)
        => /\ sends[s].exception = Nil
           /\ has_value(sends[s].value)
           /\ value_of(sends[s].value).status_code = value_of(world[s]).final

C7_UnderlyingErrorSurfaced ==
    \A s \in Sends :
        (/\ Completed(s)
         /\ Len(value_of(world[s]).faults) > value_of(adapter).max_retries)
        => /\ ~has_value(sends[s].value)
           /\ sends[s].exception \in
                 {fault_error(value_of(world[s]).faults[i]) :
                     i \in 1..Len(value_of(world[s]).faults)}

C9_ConnectionAcquired ==
    \A s \in Sends : Completed(s) => transport.opened[send_origin(s)] >= 1

\* C10: when a timeout runs out in the only attempt of a send (max_retries 0),
\* the send ends with that timeout error and no response, and no connection
\* of the attempt is left idle in the pool.
C10_TimeoutSurfaced ==
    \A s \in Sends :
        (/\ Completed(s)
         /\ has_value(sends[s].timeout_cfg)
         /\ value_of(adapter).max_retries = 0
         /\ Len(value_of(world[s]).faults) >= 1
         /\ value_of(world[s]).faults[1] \in TimeoutFaults)
        => /\ sends[s].exception = value_of(world[s]).faults[1]
           /\ ~has_value(sends[s].value)
           /\ transport.idle[send_origin(s)] = 0

\* C11: session::close releases the connections of the mounted adapters only
\* when no request in flight holds one: no request gets its answer over a
\* connection that close has released while the request was running.
C11_CloseWaitsForInFlight ==
    \A c \in Calls :
        ~(c \in closed /\ adp_frame[c].pc = "final" /\ has_value(adp_frame[c].value))

(***************************************************************************)
(* cookie_jar.  A domain is the sequence of its tokens (a leading "." is a *)
(* token of its own), a path the sequence of its segments ("/" is <<>>),   *)
(* a time a number.                                                        *)
(***************************************************************************)
\* cookie{name, value}: domain "", path "/", expires unset
cookie(name, value) ==
    [name |-> name, value |-> value, domain |-> <<>>, path |-> <<>>,
     expires |-> None]

CookieNames == {"sid", "tok"}

CookieValues == {"v1", "v2"}

DotExample == <<".", "example.com">>

Example == <<"example.com">>

SubExample == <<"sub", ".", "example.com">>

NotExample == <<"notexample.com">>

PathRoot == <<>>

PathA == <<"a">>

PathAB == <<"a", "b">>

PathAb == <<"ab">>

\* the time of a read, and an expiry before it
Now == 1

Expired == 0

\* The cookies an application builds and hands to set_cookie.
Cookies ==
    [name : CookieNames, value : CookieValues, domain : {DotExample, Example},
     path : {PathRoot, PathA}, expires : {None, Some(Expired)}]

\* std::less<std::string> on the cookie names in use
name_less(a, b) == a = "sid" /\ b = "tok"

\* cookie_jar::get: the value of the first cookie, in vector order, whose
\* name is equal and whose domain and path are equal to the ones given
cookie_jar_get(cs, name, domain, path) ==
    LET hit(c) == /\ c.name = name
                  /\ (has_value(domain) => c.domain = value_of(domain))
                  /\ (has_value(path) => c.path = value_of(path))
        I == {i \in 1..Len(cs) : hit(cs[i])}
    IN  IF I = {} THEN None
        ELSE Some(cs[CHOOSE i \in I : \A j \in I : i <= j].value)

\* cookie_jar::erase: every cookie of that name is removed
cookie_jar_erase(cs, name) == SelectSeq(cs, LAMBDA c : c.name # name)

\* cookie_jar::set: no value erases; else the first cookie of that name gets
\* the value; else cookie{name, value} is appended
cookie_jar_set(cs, name, value) ==
    IF ~has_value(value) THEN cookie_jar_erase(cs, name)
    ELSE LET I == {i \in 1..Len(cs) : cs[i].name = name}
         IN  IF I # {}
             THEN [cs EXCEPT ![CHOOSE i \in I : \A j \in I : i <= j].value =
                                 value_of(value)]
             ELSE Append(cs, cookie(name, value_of(value)))

\* cookie_jar::set_cookie: push_back
set_cookie(cs, c) == Append(cs, c)

\* cookie_jar::get_dict: result[c.name] = c.value over the cookies whose
\* domain and path are equal to the ones given, in vector order
get_dict(cs, domain, path) ==
    LET hit(c) == /\ (has_value(domain) => c.domain = value_of(domain))
                  /\ (has_value(path) => c.path = value_of(path))
        I(n) == {i \in 1..Len(cs) : cs[i].name = n /\ hit(cs[i])}
    IN  [n \in {cs[i].name : i \in {j \in 1..Len(cs) : hit(cs[j])}} |->
            cs[CHOOSE i \in I(n) : \A j \in I(n) : j <= i].value]

RECURSIVE cookie_jar_update(_, _)
\* cookie_jar::update: set(k, v) for every entry of the map, in key order
cookie_jar_update(cs, other) ==
    IF DOMAIN other = {} THEN cs
    ELSE LET k == CHOOSE a \in DOMAIN other :
                     \A b \in DOMAIN other : a = b \/ name_less(a, b)
         IN  cookie_jar_update(cookie_jar_set(cs, k, Some(other[k])),
                               [n \in DOMAIN other \ {k} |-> other[n]])

(***************************************************************************)
(* SpecJar: one cookie_jar, called by one caller.                          *)
(***************************************************************************)
\* largest number of cookies in the jar
MaxJar == 2

QueryDomains == {None, Some(DotExample), Some(Example), Some(SubExample),
                 Some(NotExample)}

QueryPaths == {None, Some(PathA), Some(PathAB), Some(PathAb)}

\* The maps handed to cookie_jar::update.
UpdateMaps == UNION {[D -> CookieValues] : D \in SUBSET CookieNames}

InitJar ==
    /\ SessionInit
    /\ AdapterIdle
    /\ RebuildIdle
    /\ JarIdle
    /\ DictIdle
    /\ ResponseIdle
    /\ prepared = None
    /\ ApiIdle

\* A call that changes the jar to cs.
jar_becomes(cs) ==
    /\ Len(cs) <= MaxJar
    /\ cookies_' = cs
    /\ jar_read' = None
    /\ UNCHANGED jar_threads

\* jar.set(name, value)
call_jar_set(name, value) == jar_becomes(cookie_jar_set(cookies_, name, value))

\* jar.erase(name)
call_jar_erase(name) == jar_becomes(cookie_jar_erase(cookies_, name))

\* jar.set_cookie(c)
call_set_cookie(c) == jar_becomes(set_cookie(cookies_, c))

\* jar.update(other)
call_jar_update(other) == jar_becomes(cookie_jar_update(cookies_, other))

\* jar.clear()
call_jar_clear == jar_becomes(<<>>)

\* jar.get(name, domain, path)
call_jar_get(name, domain, path) ==
    /\ jar_read' = Some([op |-> "get", name |-> name, domain |-> domain,
                         path |-> path,
                         result |-> cookie_jar_get(cookies_, name, domain, path)])
    /\ UNCHANGED <<cookies_, jar_threads>>

\* jar.get_dict(domain, path)
call_get_dict(domain, path) ==
    /\ jar_read' = Some([op |-> "get_dict", name |-> "", domain |-> domain,
                         path |-> path,
                         result |-> get_dict(cookies_, domain, path)])
    /\ UNCHANGED <<cookies_, jar_threads>>

jar_frame == <<session_vars, adapter_vars, rebuild_vars, dict_vars, prepared,
               response_vars, api_vars>>

NextJar ==
    \/ \E n \in CookieNames, v \in {None} \cup {Some(x) : x \in CookieValues} :
          call_jar_set(n, v) /\ UNCHANGED jar_frame
    \/ \E n \in CookieNames : call_jar_erase(n) /\ UNCHANGED jar_frame
    \/ \E c \in Cookies : call_set_cookie(c) /\ UNCHANGED jar_frame
    \/ \E o \in UpdateMaps : call_jar_update(o) /\ UNCHANGED jar_frame
    \/ call_jar_clear /\ UNCHANGED jar_frame
    \/ \E n \in CookieNames, d \in QueryDomains, q \in QueryPaths :
          call_jar_get(n, d, q) /\ UNCHANGED jar_frame
    \/ \E d \in QueryDomains, q \in QueryPaths :
          call_get_dict(d, q) /\ UNCHANGED jar_frame

SpecJar == InitJar /\ [][NextJar]_vars

\* Domain-match rule: a cookie domain with a leading "." matches the host
\* that is the domain without the dot and every host that ends with the
\* domain; a cookie domain without one matches the identical host only.
domain_match(cookie_domain, host) ==
    IF cookie_domain # <<>> /\ Head(cookie_domain) = "."
    THEN \/ host = Tail(cookie_domain)
         \/ /\ Len(host) > Len(cookie_domain)
            /\ SubSeq(host, Len(host) - Len(cookie_domain) + 1, Len(host)) = cookie_domain
    ELSE host = cookie_domain

\* Path-match rule: the cookie path is a segment-prefix of the request path.
path_match(cookie_path, request_path) == starts_with(request_path, cookie_path)

\* The expiry of the cookie is set and lies before the time of the read.
expired(c) == has_value(c.expires) /\ value_of(c.expires) < Now

\* The last call of the jar was the read op, with these filters given or not.
jar_was_read(op, with_domain, with_path) ==
    /\ has_value(jar_read)
    /\ value_of(jar_read).op = op
    /\ has_value(value_of(jar_read).domain) = with_domain
    /\ has_value(value_of(jar_read).path) = with_path

\* C13: a read of the jar for a host finds the cookies whose domain matches
\* the host by the domain-match rule, and only those: get has a value exactly
\* when a cookie of that name matches, get_dict holds exactly the names of the
\* matching cookies.
C13_DomainMatch ==
    LET r == value_of(jar_read)
        matching == {i \in 1..Len(cookies_) :
                        domain_match(cookies_[i].domain, value_of(r.domain))}
    IN  /\ jar_was_read("get", TRUE, FALSE)
           => (has_value(r.result) <=> \E i \in matching : cookies_[i].name = r.name)
        /\ jar_was_read("get_dict", TRUE, FALSE)
           => DOMAIN r.result = {cookies_[i].name : i \in matching}

\* C14: a read of the jar for a path finds the cookies whose path is a
\* segment-prefix of that path, and only those.
C14_PathMatch ==
    LET r == value_of(jar_read)
        matching == {i \in 1..Len(cookies_) :
                        path_match(cookies_[i].path, value_of(r.path))}
    IN  /\ jar_was_read("get", FALSE, TRUE)
           => (has_value(r.result) <=> \E i \in matching : cookies_[i].name = r.name)
        /\ jar_was_read("get_dict", FALSE, TRUE)
           => DOMAIN r.result = {cookies_[i].name : i \in matching}

\* C15: the jar holds at most one cookie per (name, domain, path).
C15_UniqueTriple ==
    \A i, j \in 1..Len(cookies_) :
        (/\ cookies_[i].name = cookies_[j].name
         /\ cookies_[i].domain = cookies_[j].domain
         /\ cookies_[i].path = cookies_[j].path) => i = j

\* C16: a read returns nothing of an expired cookie: it returns what the same
\* read returns from the jar without its expired cookies.
C16_ExpiredExcluded ==
    LET r == value_of(jar_read)
        unexpired == SelectSeq(cookies_, LAMBDA c : ~expired(c))
    IN  has_value(jar_read) =>
           r.result = IF r.op = "get"
                      THEN cookie_jar_get(unexpired, r.name, r.domain, r.path)
                      ELSE get_dict(unexpired, r.domain, r.path)

(***************************************************************************)
(* SpecShared: the jar of one session, reached through session::cookies()  *)
(* by callers that run in parallel.  session::cookies() returns a          *)
(* reference to the jar and cookie_jar has no lock: a call starts whatever *)
(* the other callers are doing.  A call that overlaps a mutation is a data *)
(* race; what it reads or leaves behind is then any of the outcomes below. *)
(***************************************************************************)
Threads == {"t1", "t2"}

thread_idle == [pc |-> "idle", op |-> "", name |-> "", value |-> "", raced |-> FALSE]

\* A value read or left while another caller was writing it.
Torn == "torn"

\* The jars a caller may see or leave when its call races with a mutation.
torn_jars(cs) ==
    {cs} \cup {[cs EXCEPT ![i].value = Torn] : i \in 1..Len(cs)}

InitShared ==
    /\ SessionInit
    /\ AdapterIdle
    /\ RebuildIdle
    /\ DictIdle
    /\ ResponseIdle
    /\ prepared = None
    /\ ApiIdle
    /\ cookies_ = <<>>
    /\ jar_read = None
    /\ jar_threads = [t \in Threads |-> thread_idle]

\* Two calls of which one is a mutation run at the same time.
races(op1, op2) == op1 = "set" \/ op2 = "set"

\* Caller t enters s.cookies().set(name, value) or s.cookies().get_dict():
\* nothing is waited for.
thread_call(t, op, name, value) ==
    /\ jar_threads[t].pc = "idle"
    /\ jar_threads' =
          [u \in Threads |->
              IF u = t
              THEN [pc |-> "running", op |-> op, name |-> name, value |-> value,
                    raced |-> \E v \in Threads \ {t} :
                                 /\ jar_threads[v].pc = "running"
                                 /\ races(op, jar_threads[v].op)]
              ELSE IF jar_threads[u].pc = "running" /\ races(op, jar_threads[u].op)
                   THEN [jar_threads[u] EXCEPT !.raced = TRUE]
                   ELSE jar_threads[u]]
    /\ UNCHANGED <<cookies_, jar_read>>

\* The call of caller t returns.  Without a race it has the effect of the
\* member function; with one, a set leaves the jar with the new value, the
\* old one or a torn one, and a get_dict returns a map read from such a jar.
thread_return(t) ==
    LET th == jar_threads[t]
        done == cookie_jar_set(cookies_, th.name, Some(th.value))
    IN  /\ th.pc = "running"
        /\ jar_threads' = [jar_threads EXCEPT ![t] = thread_idle]
        /\ IF th.op = "set"
           THEN /\ \E cs \in (IF th.raced THEN torn_jars(done) \cup {cookies_}
                                         ELSE {done}) :
                      /\ Len(cs) <= MaxJar
                      /\ cookies_' = cs
                /\ jar_read' = None
           ELSE /\ \E cs \in (IF th.raced THEN torn_jars(cookies_) ELSE {cookies_}) :
                      jar_read' = Some([op |-> "get_dict", name |-> "", domain |-> None,
                                        path |-> None,
                                        result |-> get_dict(cs, None, None)])
                /\ UNCHANGED cookies_

NextShared ==
    \/ \E t \in Threads, n \in CookieNames, v \in CookieValues :
          thread_call(t, "set", n, v) /\ UNCHANGED jar_frame
    \/ \E t \in Threads :
          thread_call(t, "get_dict", "", "") /\ UNCHANGED jar_frame
    \/ \E t \in Threads : thread_return(t) /\ UNCHANGED jar_frame

SpecShared == InitShared /\ [][NextShared]_vars

\* C12: the mutations of the session jar are serialized and a read sees a
\* consistent snapshot: no mutation runs while another call of the jar runs,
\* and no read returns a value that was being written.
C12_JarSerialized ==
    /\ \A t, u \in Threads :
          (/\ t # u
           /\ jar_threads[t].pc = "running"
           /\ jar_threads[u].pc = "running")
          => ~races(jar_threads[t].op, jar_threads[u].op)
    /\ has_value(jar_read) =>
          \A n \in DOMAIN value_of(jar_read).result :
              value_of(jar_read).result[n] \in CookieValues

(***************************************************************************)
(* SpecDict: one case_insensitive_dict and the calls made on it.           *)
(***************************************************************************)
\* largest number of set, erase and clear calls recorded
MaxOps == 3

DictKeys == {"Content-Type", "content-type", "CONTENT-TYPE", "X", "x"}

DictValues == {"application/json", "text/html"}

InitDict ==
    /\ SessionInit
    /\ AdapterIdle
    /\ RebuildIdle
    /\ JarIdle
    /\ ResponseIdle
    /\ prepared = None
    /\ ApiIdle
    /\ headers_ = dict_empty
    /\ dict_log = <<>>

\* headers.set(key, value)
call_dict_set(key, value) ==
    /\ Len(dict_log) < MaxOps
    /\ headers_' = dict_set(headers_, key, value)
    /\ dict_log' = Append(dict_log, [op |-> "set", key |-> key, value |-> value])

\* headers.erase(key)
call_dict_erase(key) ==
    /\ Len(dict_log) < MaxOps
    /\ headers_' = dict_erase(headers_, key)
    /\ dict_log' = Append(dict_log, [op |-> "erase", key |-> key, value |-> ""])

\* headers.clear()
call_dict_clear ==
    /\ Len(dict_log) < MaxOps
    /\ headers_' = dict_clear(headers_)
    /\ dict_log' = Append(dict_log, [op |-> "clear", key |-> "", value |-> ""])

dict_frame == <<session_vars, adapter_vars, rebuild_vars, jar_vars, prepared,
                response_vars, api_vars>>

NextDict ==
    \/ \E k \in DictKeys, v \in DictValues : call_dict_set(k, v) /\ UNCHANGED dict_frame
    \/ \E k \in DictKeys : call_dict_erase(k) /\ UNCHANGED dict_frame
    \/ call_dict_clear /\ UNCHANGED dict_frame

SpecDict == InitDict /\ [][NextDict]_vars

\* Two keys are equal under case folding: the same characters, letter case
\* apart.
same_key(a, b) ==
    /\ Len(Spelling[a]) = Len(Spelling[b])
    /\ \A i \in 1..Len(Spelling[a]) :
          \/ Spelling[a][i] = Spelling[b][i]
          \/ \E j \in 1..Len(UpperCase) :
                {Spelling[a][i], Spelling[b][i]} = {UpperCase[j], LowerCase[j]}

\* The pairs of keys in use that are equal under case folding.
alike == {kl \in DictKeys \X DictKeys : same_key(kl[1], kl[2])}

RECURSIVE last_set_in(_, _)
\* What the calls of log say key k reads: the value of the last set on a key
\* equal to k under case folding, nothing if an erase of such a key or a
\* clear came after it or if there was no such set.
last_set_in(log, k) ==
    IF log = <<>> THEN Nil
    ELSE LET e == log[Len(log)]
         IN  IF e.op = "clear" THEN Nil
             ELSE IF <<e.key, k>> \in alike
                  THEN IF e.op = "set" THEN e.value ELSE Nil
                  ELSE last_set_in(SubSeq(log, 1, Len(log) - 1), k)

last_set(k) == last_set_in(dict_log, k)

\* C19: get(k) is the value of the last set on a key equal to k under case
\* folding (nothing after an erase or without a set), keys that differ in
\* letter case only read the same, and size() counts the keys that hold a
\* value, up to case folding.
C19_LastSetWins ==
    /\ \A k \in DictKeys : dict_get(headers_, k) = last_set(k)
    /\ \A kl \in alike : dict_get(headers_, kl[1]) = dict_get(headers_, kl[2])
    /\ \A k \in DictKeys : dict_contains(headers_, k) <=> last_set(k) # Nil
    /\ dict_size(headers_) =
          Cardinality({{l \in DictKeys : <<k, l>> \in alike} :
                          k \in {x \in DictKeys : last_set(x) # Nil}})

\* "Content-Type" was set, "content-type" was set after it to another value,
\* and "CONTENT-TYPE" reads that later value while the dict holds one entry.
C19_Witness ==
    /\ Len(dict_log) = 2
    /\ dict_log[1] = [op |-> "set", key |-> "Content-Type", value |-> "application/json"]
    /\ dict_log[2] = [op |-> "set", key |-> "content-type", value |-> "text/html"]
    /\ dict_get(headers_, "CONTENT-TYPE") = "text/html"
    /\ dict_size(headers_) = 1

(***************************************************************************)
(* SpecDefaults: a session with default headers and a jar, and the         *)
(* prepared_request session::request builds for a call.                    *)
(***************************************************************************)
\* session::session: the default headers
session_headers ==
    dict_set(dict_set(dict_set(dict_set(dict_empty,
        "User-Agent", "requests-cpp/1.0"),
        "Accept", "*/*"),
        "Accept-Encoding", "gzip, deflate"),
        "Connection", "keep-alive")

\* prepared_request::prepare_cookies
prepare_cookies(cookies) == cookies

\* request::request, request::prepare and prepared_request::prepare on the
\* cookies option: prepared_request::cookies_ is the jar given per call when
\* there is one and it is not empty, and stays empty otherwise.
request_prepare_cookies(cookies) ==
    IF has_value(cookies) /\ value_of(cookies) # <<>>
    THEN prepare_cookies(value_of(cookies))
    ELSE <<>>

\* The headers option of a call.
CallHeaders ==
    {None,
     Some(dict_set(dict_empty, "Accept", "application/json")),
     Some(dict_set(dict_empty, "x-api-version", "3.0"))}

\* The cookies option of a call.
CallCookies ==
    {None, Some(<<cookie("sid", "v2")>>), Some(<<cookie("tok", "v1")>>)}

InitDefaults ==
    /\ SessionInit
    /\ AdapterIdle
    /\ RebuildIdle
    /\ ResponseIdle
    /\ headers_ = session_headers
    /\ dict_log = <<>>
    /\ cookies_ = <<>>
    /\ jar_read = None
    /\ jar_threads = None
    /\ prepared = None
    /\ ApiIdle

\* s.headers().set(key, value)
session_headers_set(key, value) ==
    /\ headers_' = dict_set(headers_, key, value)
    /\ prepared' = None
    /\ UNCHANGED <<cookies_, jar_read, jar_threads, dict_log>>

\* s.cookies().set(name, value)
session_cookies_set(name, value) ==
    /\ Len(cookie_jar_set(cookies_, name, Some(value))) <= MaxJar
    /\ cookies_' = cookie_jar_set(cookies_, name, Some(value))
    /\ prepared' = None
    /\ UNCHANGED <<headers_, jar_read, jar_threads, dict_log>>

\* session::request up to its co_await: the request object is built from the
\* options of the call alone and prepare_request returns req.prepare();
\* headers_ and cookies_ of the session are neither read nor written.
session_prepare(method, url, headers, cookies) ==
    /\ prepared' =
          Some([headers |-> headers, cookies |-> cookies, jar_before |-> cookies_,
                request |-> prepare_request(method, url,
                               [default_options EXCEPT !.headers = headers]),
                request_cookies |-> request_prepare_cookies(cookies)])
    /\ UNCHANGED <<headers_, cookies_, jar_read, jar_threads, dict_log>>

defaults_frame == <<session_vars, adapter_vars, rebuild_vars, response_vars, api_vars>>

NextDefaults ==
    \/ \E k \in {"Authorization", "X-Api-Version"}, v \in {"Bearer mytoken", "2.0"} :
          session_headers_set(k, v) /\ UNCHANGED defaults_frame
    \/ \E n \in CookieNames, v \in CookieValues :
          session_cookies_set(n, v) /\ UNCHANGED defaults_frame
    \/ \E m \in Methods, h \in CallHeaders, c \in CallCookies :
          session_prepare(m, UrlA, h, c) /\ UNCHANGED defaults_frame

SpecDefaults == InitDefaults /\ [][NextDefaults]_vars

\* Two name -> value maps merged, the second one winning on a shared name.
merged(a, b) ==
    [n \in DOMAIN a \cup DOMAIN b |-> IF n \in DOMAIN b THEN b[n] ELSE a[n]]

\* C17: a call through the session with cookies of its own sends the session
\* cookies merged with those of the call, the call's winning on a shared
\* name, and leaves the session jar as it was.
C17_CookiesMerged ==
    (has_value(prepared) /\ has_value(value_of(prepared).cookies))
    => LET p == value_of(prepared)
       IN  /\ get_dict(p.request_cookies, None, None) =
                 merged(get_dict(p.jar_before, None, None),
                        get_dict(value_of(p.cookies), None, None))
           /\ cookies_ = p.jar_before

\* C18: the headers of the request prepared for a call are the session's
\* default headers merged key by key with the headers of the call: a key
\* given by the call has the call's value, every other session key the
\* session's value.
C18_HeadersMerged ==
    has_value(prepared)
    => LET p == value_of(prepared)
           call == IF has_value(p.headers) THEN value_of(p.headers) ELSE dict_empty
       IN  /\ \A k \in DOMAIN call :
                 k \in DOMAIN p.request.headers
                    /\ p.request.headers[k].value = call[k].value
           /\ \A k \in DOMAIN headers_ \ DOMAIN call :
                 k \in DOMAIN p.request.headers
                    /\ p.request.headers[k].value = headers_[k].value

(***************************************************************************)
(* SpecResponse: one response object, set up by hand or returned by a      *)
(* send, and what raise_for_status does on it.                             *)
(***************************************************************************)
StatusCodes == {0, 100, 200, 302, 399, 400, 404, 499, 500, 599, 600}

Reasons == {"", "OK", "Not Found"}

\* response::raise_for_status: http_error(to_string(status_code_) + " " +
\* reason_) when status_code_ >= 400, nothing otherwise
raise_for_status(r) ==
    IF r.status_code >= 400
    THEN [exception |-> "http_error",
          what |-> to_string(r.status_code) \o <<" ", r.reason>>]
    ELSE [exception |-> Nil, what |-> <<>>]

InitResponse ==
    /\ SessionInit
    /\ AdapterIdle
    /\ RebuildIdle
    /\ JarIdle
    /\ DictIdle
    /\ prepared = None
    /\ ApiIdle
    /\ err_resp = Some(empty_response)
    /\ raised = None

\* err_resp.set_status_code(n)
response_set_status_code(n) ==
    /\ err_resp' = Some([value_of(err_resp) EXCEPT !.status_code = n])
    /\ raised' = None

\* err_resp.set_reason(reason)
response_set_reason(reason) ==
    /\ err_resp' = Some([value_of(err_resp) EXCEPT !.reason = reason])
    /\ raised' = None

\* The response is the one a send of adapter a returns for a GET of url: the
\* send co_returns it and throws nothing, whatever its status.
response_from_send(a, url, srv) ==
    /\ err_resp' = Some(base_adapter_send(a, prepare_request("GET", url, default_options),
                                          srv, 1))
    /\ raised' = Some([by |-> "send", exception |-> Nil, what |-> <<>>])

\* err_resp.raise_for_status()
call_raise_for_status ==
    /\ raised' = Some([by |-> "raise_for_status",
                       exception |-> raise_for_status(value_of(err_resp)).exception,
                       what |-> raise_for_status(value_of(err_resp)).what])
    /\ UNCHANGED err_resp

response_frame == <<session_vars, adapter_vars, rebuild_vars, jar_vars, dict_vars,
                    prepared, api_vars>>

NextResponse ==
    \/ \E n \in StatusCodes : response_set_status_code(n) /\ UNCHANGED response_frame
    \/ \E r \in Reasons : response_set_reason(r) /\ UNCHANGED response_frame
    \/ \E a \in {user_adapter, http_adapter(1, 1, 0, FALSE)}, u \in Urls, srv \in Servers :
          response_from_send(a, u, srv) /\ UNCHANGED response_frame
    \/ call_raise_for_status /\ UNCHANGED response_frame

SpecResponse == InitResponse /\ [][NextResponse]_vars

\* The sequence part occurs in the sequence whole, in one piece.
contains(whole, part) ==
    \E i \in 0..(Len(whole) - Len(part)) : SubSeq(whole, i + 1, i + Len(part)) = part

\* C20: raise_for_status raises http_error exactly when the status code is a
\* 4xx or a 5xx, with a message that contains the status code, and raises
\* nothing otherwise; a send returns its response and raises no http_error,
\* whatever the status.
C20_RaiseForStatus ==
    has_value(raised)
    => LET x == value_of(raised)
           code == value_of(err_resp).status_code
       IN  /\ x.by = "raise_for_status"
              => /\ x.exception = "http_error" <=> code \in 400..599
                 /\ x.exception = "http_error" => contains(x.what, to_string(code))
                 /\ x.exception \in {"http_error", Nil}
           /\ x.by = "send" => x.exception = Nil

(***************************************************************************)
(* SpecApi: one prepared_request object and the calls that build it, and   *)
(* the head() helper.                                                      *)
(***************************************************************************)
\* http_basic_auth::http_basic_auth
http_basic_auth(username, password) ==
    [kind |-> "http_basic_auth", username |-> username, password |-> password]

\* http_basic_auth::operator(): the body is empty
http_basic_auth_call(auth, r) == r

\* prepared_request::prepare_auth
prepare_auth(p, auth) == http_basic_auth_call(auth, p)

\* prepared_request::prepare: method, url, headers, body, auth in that order;
\* no branch throws
prepare(p, method, url, headers, files, data, auth, json) ==
    LET p1 == prepare_url(prepare_method(p, method), url, None)
        p2 == IF has_value(headers) THEN prepare_headers(p1, value_of(headers)) ELSE p1
        p3 == prepare_body(p2, data, files, json)
    IN  IF has_value(auth) THEN prepare_auth(p3, value_of(auth)) ELSE p3

\* session::head and head(): opts.allow_redirects = false, whatever it was
head_options(opts) == [opts EXCEPT !.allow_redirects = Some(FALSE)]

ApiMethods == {"", "get", "Get", "POST"}

ApiUrls == {UrlA, UrlNoScheme, UrlFtp}

\* std::optional<variant<string, vector<byte>>> data: absent, empty, two bytes
ApiData == {None, Some(<<>>), Some(<<1, 2>>)}

\* std::optional<files_dict>: absent, or one upload_file
ApiFiles == {None, Some(<<"report.pdf">>)}

\* std::optional<std::string> json: absent, or three bytes
ApiJson == {None, Some(<<7, 8, 9>>)}

ApiAuth == {None, Some(http_basic_auth("user", "passwd"))}

no_call ==
    [op |-> "", method |-> "", url |-> <<>>, files |-> None, data |-> None,
     auth |-> None, json |-> None, allow |-> None, used |-> None,
     exception |-> Nil]

InitApi ==
    /\ SessionInit
    /\ AdapterIdle
    /\ RebuildIdle
    /\ JarIdle
    /\ DictIdle
    /\ ResponseIdle
    /\ prepared = None
    /\ prep = empty_prepared
    /\ api_call = None

\* prepared_request pr; pr.prepare(method, url, nullopt, files, data, nullopt,
\* auth, nullopt, nullopt, json)
api_prepare(method, url, files, data, auth, json) ==
    /\ prep' = prepare(empty_prepared, method, url, None, files, data, auth, json)
    /\ api_call' = Some([no_call EXCEPT !.op = "prepare", !.method = method,
                                        !.url = url, !.files = files, !.data = data,
                                        !.auth = auth, !.json = json])

\* pr.prepare_method(method)
api_prepare_method(method) ==
    /\ prep' = prepare_method(prep, method)
    /\ api_call' = Some([no_call EXCEPT !.op = "prepare_method", !.method = method])

\* pr.prepare_body(data, files, json)
api_prepare_body(data, files, json) ==
    /\ prep' = prepare_body(prep, data, files, json)
    /\ api_call' = Some([no_call EXCEPT !.op = "prepare_body", !.files = files,
                                        !.data = data, !.json = json])

\* pr.prepare_content_length()
api_prepare_content_length ==
    /\ prep' = prepare_content_length(prep)
    /\ api_call' = Some([no_call EXCEPT !.op = "prepare_content_length"])

\* head(url, opts) with opts.allow_redirects as the caller set it
api_head(allow) ==
    /\ api_call' =
          Some([no_call EXCEPT
                  !.op = "head", !.method = "HEAD", !.allow = allow,
                  !.used = head_options([default_options EXCEPT
                                            !.allow_redirects = allow]).allow_redirects])
    /\ UNCHANGED prep

api_frame == <<session_vars, adapter_vars, rebuild_vars, jar_vars, dict_vars,
               prepared, response_vars>>

NextApi ==
    \/ \E m \in ApiMethods, u \in ApiUrls, f \in ApiFiles, d \in ApiData,
          a \in ApiAuth, j \in ApiJson :
          api_prepare(m, u, f, d, a, j) /\ UNCHANGED api_frame
    \/ \E m \in ApiMethods : api_prepare_method(m) /\ UNCHANGED api_frame
    \/ \E d \in ApiData, f \in ApiFiles, j \in ApiJson :
          api_prepare_body(d, f, j) /\ UNCHANGED api_frame
    \/ api_prepare_content_length /\ UNCHANGED api_frame
    \/ \E al \in AllowRedirects : api_head(al) /\ UNCHANGED api_frame

SpecApi == InitApi /\ [][NextApi]_vars

\* The last call made on the prepared_request, or through head()
last_call == value_of(api_call)

called(ops) == has_value(api_call) /\ last_call.op \in ops

\* The upper-case spelling of each non-empty method the callers pass
upper_cased == [m \in ApiMethods \ {""} |-> IF m = "POST" THEN "POST" ELSE "GET"]

\* C21: prepare and prepare_method store the method upper-cased for every
\* non-empty method string, and for the empty method the call fails with an
\* invalid-request error instead of leaving a prepared request whose method
\* is empty.
C21_MethodUpperCased ==
    called({"prepare", "prepare_method"})
    => /\ last_call.method # ""
          => last_call.exception = Nil /\ prep.method = upper_cased[last_call.method]
       /\ last_call.method = ""
          => last_call.exception # Nil /\ prep.method # ""

\* The Content-Type values of a multipart body with a generated boundary
MultipartTypes == {"multipart/form-data; boundary=b1", "multipart/form-data; boundary=b2"}

\* C23: prepare_body chooses the body by precedence json, files, data: with
\* json present the body is the json bytes and Content-Type is
\* application/json whatever data and files are; with json absent and files
\* present the body is a multipart body and Content-Type is
\* multipart/form-data with a boundary; with only data present the body is
\* exactly the data bytes.
C23_BodyPrecedence ==
    called({"prepare", "prepare_body"})
    => /\ has_value(last_call.json)
          => /\ prep.body = value_of(last_call.json)
             /\ dict_get(prep.headers, "Content-Type") = "application/json"
       /\ ~has_value(last_call.json) /\ has_value(last_call.files)
          => /\ dict_get(prep.headers, "Content-Type") \in MultipartTypes
             /\ prep.body # <<>>
       /\ ~has_value(last_call.json) /\ ~has_value(last_call.files)
             /\ has_value(last_call.data)
          => prep.body = value_of(last_call.data)

\* C25: head() uses allow_redirects = false only as a default: when the
\* caller's options carry allow_redirects, the HEAD request is issued with
\* the value the caller set.
C25_HeadKeepsCallerChoice ==
    called({"head"})
    => /\ last_call.method = "HEAD"
       /\ has_value(last_call.allow) => last_call.used = last_call.allow
       /\ ~has_value(last_call.allow) => last_call.used = Some(FALSE)

\* "Basic " followed by the base64 encoding of "user:passwd"
BasicUserPasswd == "Basic dXNlcjpwYXNzd2Q="

\* C26: a request prepared with http_basic_auth(username, password) carries
\* an Authorization header whose value is "Basic " followed by the encoding
\* of username:password, as soon as it is prepared and without any challenge
\* from the server.
C26_BasicAuthHeader ==
    called({"prepare"}) /\ has_value(last_call.auth)
    => /\ dict_contains(prep.headers, "Authorization")
       /\ dict_get(prep.headers, "Authorization") = BasicUserPasswd

\* C30: after any sequence of prepare_body and prepare_content_length calls
\* on one prepared_request, Content-Length is present whenever the body is
\* non-empty and, when present, is the decimal byte length of the current
\* body: no call leaves the length of an earlier, longer body in place.
C30_ContentLengthMatchesBody ==
    /\ prep.body # <<>> => dict_contains(prep.headers, "Content-Length")
    /\ dict_contains(prep.headers, "Content-Length")
       => dict_get(prep.headers, "Content-Length") = to_string(Len(prep.body))

====
